---- MODULE Spec2Model ----
(***************************************************************************)
(* space-traffic-analytics: the dashboard's layered cache                  *)
(* (visualization/main.py), the ingestion handler (ingestion/main.py,      *)
(* ingestion/pubsub_utils.py) and the trajectory builder                   *)
(* (transformation/physics.py).                                            *)
(***************************************************************************)
EXTENDS Integers, Sequences, FiniteSets, TLC

(* ------------------------------ bounds -------------------------------- *)
NumProcs == 2      \* request handlers of one dashboard process
MaxDay == 2        \* UTC dates 0 .. MaxDay; the process starts on date 1
MaxVer == 1        \* warehouse refreshes after the initial content
MaxRequests == 3   \* ingestion requests
MaxRows == 2       \* rows of the transformed table

(* ------------------------- program constants -------------------------- *)
DayMinutes == 1440      \* np.arange(0, 1440, 10): the stop
StepMinutes == 10       \* np.arange(0, 1440, 10): the step
NumUrls == 5            \* len(urls) in load_satellites_data

\* len(np.arange(0, 1440, 10))
GridLen == DayMinutes \div StepMinutes

Procs == 1 .. NumProcs
None == [none |-> TRUE]
NoDate == 0 - 1

VARIABLES
    today,           \* datetime.now(timezone.utc).date()
    warehouse,       \* transformed_orbital_satellites_data + orbital_kpis_view
    blob,            \* the GCS object orbital_data_cache.pkl
    df_main, df_kpi, timestamps, search_options,   \* module globals
    pc, kind,        \* each handler's position and the route it serves
    today_utc, cached_data,                        \* locals of load_data_smart
    call,            \* history: what the handler's current call did
    sweeps,          \* history: warehouse reads since the process started
    lastOk           \* history: the last load that returned normally

VARIABLES
    ipc,             \* ingestion main(request): position in the handler
    url,             \* load_satellites_data: urls fetched so far
    loads,           \* times the raw table was replaced
    published,       \* messages on the Pub/Sub topic
    resp,            \* the handler's response
    exec,            \* history: what the current execution did
    nreq             \* history: requests taken

ingVars == <<ipc, url, loads, published, resp, exec, nreq>>

VARIABLES
    now,             \* physics.py line 8, read once at import
    catalog,         \* rows built by get_position: name, elements, Trajectory
    grid_ts,         \* main.py lines 80-81: timestamps of the first row
    shown            \* update_map: the index, the instant and the points drawn

trVars == <<now, catalog, grid_ts, shown>>

vizVars == <<today, warehouse, blob, df_main, df_kpi, timestamps,
             search_options, pc, kind, today_utc, cached_data, call,
             sweeps, lastOk>>

(* A table content: its version, and the first trajectory's grid (date of  *)
(* its first timestamp, number of timestamps).                             *)
Dataset(v, d, n) == [ver |-> v, date |-> d, len |-> n]
Grid(d, n) == [date |-> d, len |-> n]
EmptyGrid == Grid(NoDate, 0)
Pickle(m, k, t) == [kind |-> "pickle", main |-> m, kpi |-> k, ts |-> t]
Corrupt == [kind |-> "corrupt"]
Missing == [kind |-> "missing"]

\* orbital_kpis_view is derived from the table: one row per table version
Kpi(v) == [kpiOf |-> v]
\* lines 58-59 and 95-96: the sorted unique Object_Name of df_main
Names(ds) == [namesOf |-> ds.ver]

\* lines 80-81: the timestamps of the first row's trajectory
GridOf(ds) == Grid(ds.date, ds.len)

Mem == [main |-> df_main, kpi |-> df_kpi, ts |-> timestamps,
        opts |-> search_options]
EmptyMem == [main |-> None, kpi |-> None, ts |-> EmptyGrid, opts |-> None]

NoCall == [status |-> "idle", path |-> "none", day |-> NoDate,
           mem0 |-> EmptyMem, blob0 |-> Missing, failedAt |-> "none",
           readErr |-> FALSE, sweeps |-> 0, writes |-> 0, stores |-> 0,
           prev |-> None, served |-> None, view |-> "none"]

(* ------------------------------ cache --------------------------------- *)
\* line 35: if df_main is not None
MemoryHit_Never == FALSE
MemoryHit == df_main # None

\* line 53: len(cached_ts) > 0 and cached_ts[0].date() == today_utc
CacheFresh_Inverted(c, t) == c.ts.len > 0 /\ c.ts.date # t
CacheFresh(c, t) == c.ts.len > 0 /\ c.ts.date = t

\* what the table and the cache object can hold when the process starts
Warehouses == {Dataset(0, d, GridLen) : d \in 0 .. 1}
Blobs == {Missing, Corrupt}
         \cup {Pickle(w, Kpi(w.ver), GridOf(w)) : w \in Warehouses}
         \cup {Pickle(Dataset(0, NoDate, 0), Kpi(0), EmptyGrid)}

\* lines 27-30: the module globals of a process that has just started
InitViz(W, B) ==
    /\ today = 1
    /\ warehouse \in W
    /\ blob \in B
    /\ df_main = None
    /\ df_kpi = None
    /\ timestamps = EmptyGrid
    /\ search_options = None
    /\ pc = [p \in Procs |-> "idle"]
    /\ kind = [p \in Procs |-> "warmup"]
    /\ today_utc = [p \in Procs |-> NoDate]
    /\ cached_data = [p \in Procs |-> Missing]
    /\ call = [p \in Procs |-> NoCall]
    /\ sweeps = 0
    /\ lastOk = None

(* --------------------------- environment ------------------------------ *)
\* the UTC date rolls over
Tick ==
    /\ today < MaxDay
    /\ today' = today + 1
    /\ UNCHANGED <<warehouse, blob, df_main, df_kpi, timestamps,
                   search_options, pc, kind, today_utc, cached_data, call,
                   sweeps, lastOk>>
    /\ UNCHANGED <<ingVars, trVars>>

\* the transformation job replaces the table with one built on today's grid
\* (physics.py lines 8-16: midnight of now, 144 instants)
Transform ==
    /\ warehouse.ver < MaxVer
    /\ warehouse' = Dataset(warehouse.ver + 1, today, GridLen)
    /\ UNCHANGED <<today, blob, df_main, df_kpi, timestamps,
                   search_options, pc, kind, today_utc, cached_data, call,
                   sweeps, lastOk>>
    /\ UNCHANGED <<ingVars, trVars>>

(* ---------------------------- handlers -------------------------------- *)
Routes == {"warmup", "serve_layout", "update_map"}

\* load_data_smart returns normally (lines 37, 60, 96)
Return(p, path) ==
    /\ pc' = [pc EXCEPT ![p] = IF kind[p] = "warmup" THEN "done" ELSE "use"]
    /\ call' = [call EXCEPT ![p].status = "ok", ![p].path = path,
                            ![p].served = [date |-> df_main.date, day |-> today]]
    /\ lastOk' = [day |-> today, main |-> df_main]

\* an exception leaves the handler (the route answers 500)
Raise(p, where) ==
    /\ pc' = [pc EXCEPT ![p] = "done"]
    /\ call' = [call EXCEPT ![p].status = "raised", ![p].failedAt = where]
    /\ UNCHANGED lastOk

\* lines 98-101: sys.exit(1) raises SystemExit in the serving thread; the
\* server either ends the process (all globals and requests are lost) or
\* only the request's thread
CriticalExit(p, where) ==
    \/ /\ pc' = [q \in Procs |-> "idle"]
       /\ kind' = [q \in Procs |-> "warmup"]
       /\ call' = [q \in Procs |-> NoCall]
       /\ today_utc' = [q \in Procs |-> NoDate]
       /\ cached_data' = [q \in Procs |-> Missing]
       /\ df_main' = None
       /\ df_kpi' = None
       /\ timestamps' = EmptyGrid
       /\ search_options' = None
       /\ sweeps' = 0
       /\ lastOk' = None
    \/ /\ pc' = [pc EXCEPT ![p] = "done"]
       /\ call' = [call EXCEPT ![p].status = "exit", ![p].failedAt = where]
       /\ UNCHANGED <<kind, today_utc, cached_data, df_main, df_kpi, timestamps,
                      search_options, sweeps, lastOk>>

\* a request arrives: warmup calls load_data_smart (line 110); serve_layout
\* and update_map call it only if df_main is None (lines 125, 275)
Request(p, k) ==
    /\ pc[p] = "idle"
    /\ kind' = [kind EXCEPT ![p] = k]
    /\ pc' = [pc EXCEPT ![p] = IF k = "warmup" \/ df_main = None
                               THEN "L35" ELSE "use"]
    /\ call' = [call EXCEPT ![p] =
           [NoCall EXCEPT !.status = IF k = "warmup" \/ df_main = None
                                     THEN "run" ELSE "ok",
                          !.path = IF k = "warmup" \/ df_main = None
                                   THEN "none" ELSE "ram",
                          !.served = IF k = "warmup" \/ df_main = None
                                     THEN None
                                     ELSE [date |-> df_main.date, day |-> today],
                          !.day = today, !.mem0 = Mem, !.blob0 = blob,
                          !.prev = IF lastOk # None /\ lastOk.day = today
                                   THEN lastOk ELSE None]]
    /\ lastOk' = IF k = "warmup" \/ df_main = None THEN lastOk
                 ELSE [day |-> today, main |-> df_main]
    /\ UNCHANGED <<today, warehouse, blob, df_main, df_kpi, timestamps,
                   search_options, today_utc, cached_data, sweeps>>
    /\ UNCHANGED <<ingVars, trVars>>

\* lines 35-39
L35(p) ==
    /\ pc[p] = "L35"
    /\ IF MemoryHit
       THEN /\ Return(p, "ram")
            /\ UNCHANGED today_utc
       ELSE /\ today_utc' = [today_utc EXCEPT ![p] = today]
            /\ pc' = [pc EXCEPT ![p] = "L45"]
            /\ UNCHANGED <<call, lastOk>>
    /\ UNCHANGED <<today, warehouse, blob, df_main, df_kpi, timestamps,
                   search_options, kind, cached_data, sweeps>>
    /\ UNCHANGED <<ingVars, trVars>>

\* lines 41-45: storage.Client(), blob.exists(); outside any try
L45(p) ==
    /\ pc[p] = "L45"
    /\ \/ /\ pc' = [pc EXCEPT ![p] = IF blob = Missing THEN "L70" ELSE "L48"]
          /\ call' = [call EXCEPT ![p].stores = 1]
          /\ UNCHANGED lastOk
       \/ Raise(p, "exists")
    /\ UNCHANGED <<today, warehouse, blob, df_main, df_kpi, timestamps,
                   search_options, kind, today_utc, cached_data, sweeps>>
    /\ UNCHANGED <<ingVars, trVars>>

\* lines 47-64: download, unpickle, freshness check; any exception is logged
\* and the load goes on to the warehouse
L48(p) ==
    /\ pc[p] = "L48"
    /\ \/ /\ blob.kind = "pickle"
          /\ cached_data' = [cached_data EXCEPT ![p] = blob]
          /\ pc' = [pc EXCEPT ![p] =
                 IF CacheFresh(blob, today_utc[p]) THEN "L55" ELSE "L70"]
          /\ UNCHANGED call
       \/ /\ pc' = [pc EXCEPT ![p] = "L70"]
          /\ call' = [call EXCEPT ![p].readErr = TRUE]
          /\ UNCHANGED cached_data
    /\ UNCHANGED <<today, warehouse, blob, df_main, df_kpi, timestamps,
                   search_options, kind, today_utc, sweeps, lastOk>>
    /\ UNCHANGED <<ingVars, trVars>>

\* line 55
L55(p) ==
    /\ pc[p] = "L55"
    /\ df_main' = cached_data[p].main
    /\ pc' = [pc EXCEPT ![p] = "L56"]
    /\ UNCHANGED <<today, warehouse, blob, df_kpi, timestamps, search_options,
                   kind, today_utc, cached_data, call, sweeps, lastOk>>
    /\ UNCHANGED <<ingVars, trVars>>

\* line 56
L56(p) ==
    /\ pc[p] = "L56"
    /\ df_kpi' = cached_data[p].kpi
    /\ pc' = [pc EXCEPT ![p] = "L57"]
    /\ UNCHANGED <<today, warehouse, blob, df_main, timestamps, search_options,
                   kind, today_utc, cached_data, call, sweeps, lastOk>>
    /\ UNCHANGED <<ingVars, trVars>>

\* line 57
L57(p) ==
    /\ pc[p] = "L57"
    /\ timestamps' = cached_data[p].ts
    /\ pc' = [pc EXCEPT ![p] = "L58"]
    /\ UNCHANGED <<today, warehouse, blob, df_main, df_kpi, search_options,
                   kind, today_utc, cached_data, call, sweeps, lastOk>>
    /\ UNCHANGED <<ingVars, trVars>>

\* lines 58-60
L58(p) ==
    /\ pc[p] = "L58"
    /\ search_options' = Names(df_main)
    /\ Return(p, "gcs")
    /\ UNCHANGED <<today, warehouse, blob, df_main, df_kpi, timestamps,
                   kind, today_utc, cached_data, sweeps>>
    /\ UNCHANGED <<ingVars, trVars>>

\* lines 68-70: read the table into the global df_main
L70(p) ==
    /\ pc[p] = "L70"
    /\ \/ /\ df_main' = warehouse
          /\ sweeps' = sweeps + 1
          /\ pc' = [pc EXCEPT ![p] = "L72"]
          /\ call' = [call EXCEPT ![p].sweeps = 1]
          /\ UNCHANGED <<kind, today_utc, cached_data, df_kpi, timestamps,
                         search_options, lastOk>>
       \/ CriticalExit(p, "read_main")
    /\ UNCHANGED <<today, warehouse, blob>>
    /\ UNCHANGED <<ingVars, trVars>>

\* lines 72-78: decode the Trajectory column in place (IndexError on an
\* empty table), then read the KPI view into the global df_kpi
L72(p) ==
    /\ pc[p] = "L72"
    /\ \/ /\ df_kpi' = Kpi(warehouse.ver)
          /\ pc' = [pc EXCEPT ![p] = "L80"]
          /\ UNCHANGED <<kind, today_utc, cached_data, df_main, timestamps,
                         search_options, sweeps, lastOk, call>>
       \/ CriticalExit(p, "read_kpi")
    /\ UNCHANGED <<today, warehouse, blob>>
    /\ UNCHANGED <<ingVars, trVars>>

\* lines 80-81: timestamps of the first row of the global df_main
L80(p) ==
    /\ pc[p] = "L80"
    /\ timestamps' = GridOf(df_main)
    /\ pc' = [pc EXCEPT ![p] = "L84"]
    /\ UNCHANGED <<today, warehouse, blob, df_main, df_kpi, search_options,
                   kind, today_utc, cached_data, call, sweeps, lastOk>>
    /\ UNCHANGED <<ingVars, trVars>>

\* lines 98-101 reached from line 92: blob.upload_from_file raised
OnUploadError(p) == CriticalExit(p, "upload")

\* lines 84-93: pickle the three globals and upload them
L84(p) ==
    /\ pc[p] = "L84"
    /\ \/ /\ blob' = Pickle(df_main, df_kpi, timestamps)
          /\ pc' = [pc EXCEPT ![p] = "L95"]
          /\ call' = [call EXCEPT ![p].writes = 1]
          /\ UNCHANGED <<kind, today_utc, cached_data, df_main, df_kpi, timestamps,
                         search_options, sweeps, lastOk>>
       \/ /\ OnUploadError(p)
          /\ UNCHANGED blob
    /\ UNCHANGED <<today, warehouse>>
    /\ UNCHANGED <<ingVars, trVars>>

\* lines 95-96, and the return
L95(p) ==
    /\ pc[p] = "L95"
    /\ search_options' = Names(df_main)
    /\ Return(p, "bq")
    /\ UNCHANGED <<today, warehouse, blob, df_main, df_kpi, timestamps,
                   kind, today_utc, cached_data, sweeps>>
    /\ UNCHANGED <<ingVars, trVars>>

\* serve_layout lines 128-129 (df_kpi.iloc[0]) and update_map lines 277-280
\* (timestamps[time_index]): the handler uses the globals it did not load
Use(p) ==
    /\ pc[p] = "use"
    /\ pc' = [pc EXCEPT ![p] = "done"]
    /\ call' = [call EXCEPT ![p].view =
           IF kind[p] = "serve_layout"
           THEN (IF df_kpi = None THEN "crashed" ELSE "rendered")
           ELSE (IF timestamps.len = 0 THEN "crashed" ELSE "rendered")]
    /\ UNCHANGED <<today, warehouse, blob, df_main, df_kpi, timestamps,
                   search_options, kind, today_utc, cached_data, sweeps, lastOk>>
    /\ UNCHANGED <<ingVars, trVars>>

\* the response is sent; the handler takes the next request
Finish(p) ==
    /\ pc[p] = "done"
    /\ pc' = [pc EXCEPT ![p] = "idle"]
    /\ call' = [call EXCEPT ![p] = NoCall]
    /\ kind' = [kind EXCEPT ![p] = "warmup"]
    /\ today_utc' = [today_utc EXCEPT ![p] = NoDate]
    /\ cached_data' = [cached_data EXCEPT ![p] = Missing]
    /\ UNCHANGED <<today, warehouse, blob, df_main, df_kpi, timestamps,
                   search_options, sweeps, lastOk>>
    /\ UNCHANGED <<ingVars, trVars>>

(* ---------------------- ingestion/main.py ----------------------------- *)
NoResp == [body |-> "none", code |-> 0]
NoExec == [loaded |-> FALSE, raised |-> FALSE, publishCalled |-> FALSE,
           msgs0 |-> 0]

IngestIdle ==
    /\ ipc = "idle"
    /\ url = 0
    /\ loads = 0
    /\ published = 0
    /\ resp = NoResp
    /\ exec = NoExec
    /\ nreq = 0

\* main(request) is invoked
IRequest ==
    /\ ipc = "idle"
    /\ nreq < MaxRequests
    /\ nreq' = nreq + 1
    /\ ipc' = "L46"
    /\ url' = 0
    /\ resp' = NoResp
    /\ exec' = [NoExec EXCEPT !.msgs0 = published]
    /\ UNCHANGED <<loads, published>>
    /\ UNCHANGED <<vizVars, trVars>>

\* lines 53-55: except Exception: log, return 'Failed', 500
OnLoadError_Publish ==
    /\ ipc' = "L50"
    /\ exec' = [exec EXCEPT !.raised = TRUE]
    /\ UNCHANGED <<resp, nreq>>
OnLoadError ==
    /\ ipc' = "idle"
    /\ resp' = [body |-> "Failed", code |-> 500]
    /\ exec' = [exec EXCEPT !.raised = TRUE]
    /\ UNCHANGED nreq

\* lines 46-47: dlt.pipeline(...) returns or raises
IL46 ==
    /\ ipc = "L46"
    /\ \/ /\ ipc' = "L48"
          /\ UNCHANGED <<resp, exec, nreq>>
       \/ OnLoadError
    /\ UNCHANGED <<url, loads, published>>
    /\ UNCHANGED <<vizVars, trVars>>

\* line 48 running lines 37-41: the next url is read in chunks, or
\* pd.read_csv raises
IFetch ==
    /\ ipc = "L48"
    /\ url < NumUrls
    /\ \/ /\ url' = url + 1
          /\ UNCHANGED <<ipc, resp, exec, nreq>>
       \/ /\ OnLoadError
          /\ UNCHANGED url
    /\ UNCHANGED <<loads, published>>
    /\ UNCHANGED <<vizVars, trVars>>

\* line 48: all urls read; the load job replaces the table, or raises
ILoad ==
    /\ ipc = "L48"
    /\ url = NumUrls
    /\ \/ /\ loads' = loads + 1
          /\ ipc' = "L50"
          /\ exec' = [exec EXCEPT !.loaded = TRUE]
          /\ UNCHANGED <<resp, nreq>>
       \/ /\ OnLoadError
          /\ UNCHANGED loads
    /\ UNCHANGED <<url, published>>
    /\ UNCHANGED <<vizVars, trVars>>

\* pubsub_utils.publish_message lines 11-30: the message is published and its
\* id returned, or the exception is logged and None returned
publish_message ==
    \/ published' = published + 1
    \/ UNCHANGED published

\* line 50
IL50 ==
    /\ ipc = "L50"
    /\ publish_message
    /\ exec' = [exec EXCEPT !.publishCalled = TRUE]
    /\ ipc' = "L51"
    /\ UNCHANGED <<url, loads, resp, nreq>>
    /\ UNCHANGED <<vizVars, trVars>>

\* line 51: return 'Success', 200
IL51 ==
    /\ ipc = "L51"
    /\ resp' = [body |-> "Success", code |-> 200]
    /\ ipc' = "idle"
    /\ UNCHANGED <<url, loads, published, exec, nreq>>
    /\ UNCHANGED <<vizVars, trVars>>

NextIngest ==
    \/ IRequest
    \/ IL46
    \/ IFetch
    \/ ILoad
    \/ IL50
    \/ IL51

(* -------------------- transformation/physics.py ----------------------- *)
\* instants are minutes since 00:00 of date 0; angles are in 1/1000 degree

\* line 10: now.replace(hour = 0, minute = 0, second = 0, microsecond = 0)
midnight(n) == [day |-> n.day, min |-> 0]

\* line 12: ts.from_datetime(midnight)
from_datetime(dt) == dt.day * DayMinutes + dt.min

\* line 14: np.arange(0, 1440, 10)
minutes == [i \in 1 .. GridLen |-> (i - 1) * StepMinutes]

\* line 16: start_time + (minutes / 1440.0)
timeVector == [i \in 1 .. Len(minutes) |-> from_datetime(midnight(now)) + minutes[i]]

\* line 36: t_obj.utc_datetime(), then str(): date, hours, minutes
utc_datetime(t) ==
    [date |-> t \div DayMinutes, hh |-> (t % DayMinutes) \div 60, mm |-> t % 60]

\* main.py line 81: pd.to_datetime(timestamps_raw, utc=True)
to_datetime(str) == str.date * DayMinutes + str.hh * 60 + str.mm

NaN == 0 - 999999

\* lines 37-38: round(float(x), 2), from 1/1000 to 1/100 degree, ties to even
round2(x) ==
    IF x = NaN THEN NaN
    ELSE LET q == x \div 10
             r == x % 10
         IN IF r > 5 \/ (r = 5 /\ q % 2 = 1) THEN q + 1 ELSE q

\* lines 20-30: EarthSatellite.from_omm, satellite.at(timeVector) and
\* wgs84.geographic_position_of: a circular orbit over a rotating Earth; a
\* decayed object propagates to NaN
Phase(sat, t) == (sat.ma * 1000 + sat.mm * 250 * t) % 360000
Wave(ph) ==
    IF ph <= 90000 THEN ph
    ELSE IF ph <= 270000 THEN 180000 - ph ELSE ph - 360000
Latitude(sat, t) ==
    IF sat.kind = "decayed" THEN NaN ELSE (sat.incl * Wave(Phase(sat, t))) \div 90
Longitude(sat, t) ==
    IF sat.kind = "decayed" THEN NaN
    ELSE ((sat.raan * 1000 + Phase(sat, t) - 250 * t) % 360000) - 180000

Min(a, b) == IF a <= b THEN a ELSE b

RECURSIVE SumRange(_, _, _)
SumRange(f, lo, hi) ==
    IF lo > hi THEN 0
    ELSE IF lo = hi THEN f[lo]
    ELSE SumRange(f, lo, (lo + hi) \div 2) + SumRange(f, (lo + hi) \div 2 + 1, hi)

\* line 41: np.mean(alts)
mean(f) == SumRange(f, 1, Len(f)) \div Len(f)

\* lines 18-41: the path pairs the i-th instant with the i-th position
get_position_Shifted(sat_data) ==
    LET lats == [i \in 1 .. Len(timeVector) |-> Latitude(sat_data, timeVector[i])]
        lons == [i \in 1 .. Len(timeVector) |-> Longitude(sat_data, timeVector[i])]
    IN [path |-> [i \in 1 .. Len(timeVector) - 1 |->
                     [timestamp |-> utc_datetime(timeVector[i + 1]),
                      lat |-> round2(lats[i]),
                      lon |-> round2(lons[i])]],
        mean_alt |-> sat_data.alt]
get_position(sat_data) ==
    LET lats == [i \in 1 .. Len(timeVector) |-> Latitude(sat_data, timeVector[i])]
        lons == [i \in 1 .. Len(timeVector) |-> Longitude(sat_data, timeVector[i])]
        alts == [i \in 1 .. Len(timeVector) |-> sat_data.alt]
        n == Min(Len(timeVector), Min(Len(lats), Len(lons)))
    IN [path |-> [i \in 1 .. n |->
                     [timestamp |-> utc_datetime(timeVector[i]),
                      lat |-> round2(lats[i]),
                      lon |-> round2(lons[i])]],
        mean_alt |-> mean(alts)]

\* orbital element sets: two sound ones, a decayed one, and one that
\* EarthSatellite.from_omm rejects
Sats ==
    { [name |-> "ISS", kind |-> "ok", incl |-> 52, raan |-> 10, ma |-> 40,
       mm |-> 15, alt |-> 420],
      [name |-> "GOES", kind |-> "ok", incl |-> 0, raan |-> 105, ma |-> 0,
       mm |-> 1, alt |-> 35786],
      [name |-> "DEB", kind |-> "decayed", incl |-> 82, raan |-> 200, ma |-> 7,
       mm |-> 16, alt |-> 120],
      [name |-> "BAD", kind |-> "malformed", incl |-> 0, raan |-> 0, ma |-> 0,
       mm |-> 0, alt |-> 0] }

NoShown == [idx |-> 0 - 1, ts |-> 0 - 1, pts |-> <<>>]

TransformIdle ==
    /\ now = [day |-> 1, min |-> 0]
    /\ catalog = <<>>
    /\ grid_ts = <<>>
    /\ shown = NoShown

\* the module is imported at some instant of some date
TransformInit ==
    /\ now \in [day : 0 .. MaxDay, min : {0, 725, DayMinutes - 1}]
    /\ catalog = <<>>
    /\ grid_ts = <<>>
    /\ shown = NoShown

\* get_position is applied to one element set; a row is kept if it returns
Propagate(sat) ==
    /\ grid_ts = <<>>
    /\ Len(catalog) < MaxRows
    /\ catalog' =
          IF sat.kind = "malformed" THEN catalog
          ELSE Append(catalog,
                      [Object_Name |-> sat.name, elements |-> sat,
                       Trajectory |-> get_position(sat).path,
                       Avg_Altitude |-> get_position(sat).mean_alt])
    /\ UNCHANGED <<now, grid_ts, shown>>
    /\ UNCHANGED <<vizVars, ingVars>>

\* main.py lines 80-81: the dashboard takes the first row's timestamps
LoadGrid ==
    /\ grid_ts = <<>>
    /\ catalog # <<>>
    /\ grid_ts' = [i \in 1 .. Len(catalog[1].Trajectory) |->
                      to_datetime(catalog[1].Trajectory[i].timestamp)]
    /\ UNCHANGED <<now, catalog, shown>>
    /\ UNCHANGED <<vizVars, ingVars>>

\* main.py lines 277-310: update_map draws row.Trajectory[time_index] of every
\* row the search keeps; a row too short for the index is skipped
update_map(time_index, search_name) ==
    LET idx == IF time_index >= Len(grid_ts) THEN 0 ELSE time_index
        kept == SelectSeq(catalog,
                    LAMBDA row : /\ (search_name = "" \/ row.Object_Name = search_name)
                                 /\ idx + 1 <= Len(row.Trajectory))
    IN [idx |-> idx,
        ts |-> grid_ts[idx + 1],
        pts |-> [j \in 1 .. Len(kept) |->
                    [Object_Name |-> kept[j].Object_Name,
                     elements |-> kept[j].elements,
                     pt |-> kept[j].Trajectory[idx + 1]]]]

\* the slider or the search box changes
Lookup(time_index, search_name) ==
    /\ grid_ts # <<>>
    /\ shown' = update_map(time_index, search_name)
    /\ UNCHANGED <<now, catalog, grid_ts>>
    /\ UNCHANGED <<vizVars, ingVars>>

NextTransform ==
    \/ \E sat \in Sats : Propagate(sat)
    \/ LoadGrid
    \/ \E i \in {0, 1, GridLen \div 2, GridLen - 1, GridLen},
          n \in {""} \cup {sat.name : sat \in Sats} : Lookup(i, n)

OthersIdle(p) == \A q \in Procs \ {p} : pc[q] = "idle"

\* one request at a time, from every content of the table and the cache
InitSeq == InitViz(Warehouses, Blobs) /\ IngestIdle /\ TransformIdle

\* concurrent requests, from an empty process with no fresh cache object
Init == InitViz({Dataset(0, 1, GridLen)}, {Missing}) /\ IngestIdle /\ TransformIdle

\* the ingestion function alone
InitIngest == InitViz({Dataset(0, 1, GridLen)}, {Missing}) /\ IngestIdle /\ TransformIdle

\* the transformation module and the dashboard's lookups alone
InitTransform == InitViz({Dataset(0, 1, GridLen)}, {Missing}) /\ IngestIdle /\ TransformInit

Next ==
    \/ Tick
    \/ Transform
    \/ \E p \in Procs, k \in Routes : Request(p, k)
    \/ \E p \in Procs : L35(p)
    \/ \E p \in Procs : L45(p)
    \/ \E p \in Procs : L48(p)
    \/ \E p \in Procs : L55(p)
    \/ \E p \in Procs : L56(p)
    \/ \E p \in Procs : L57(p)
    \/ \E p \in Procs : L58(p)
    \/ \E p \in Procs : L70(p)
    \/ \E p \in Procs : L72(p)
    \/ \E p \in Procs : L80(p)
    \/ \E p \in Procs : L84(p)
    \/ \E p \in Procs : L95(p)
    \/ \E p \in Procs : Use(p)
    \/ \E p \in Procs : Finish(p)

\* the handlers of a server that takes one request at a time
NextSeq ==
    \/ Tick
    \/ Transform
    \/ \E p \in Procs, k \in Routes : OthersIdle(p) /\ Request(p, k)
    \/ \E p \in Procs : L35(p)
    \/ \E p \in Procs : L45(p)
    \/ \E p \in Procs : L48(p)
    \/ \E p \in Procs : L55(p)
    \/ \E p \in Procs : L56(p)
    \/ \E p \in Procs : L57(p)
    \/ \E p \in Procs : L58(p)
    \/ \E p \in Procs : L70(p)
    \/ \E p \in Procs : L72(p)
    \/ \E p \in Procs : L80(p)
    \/ \E p \in Procs : L84(p)
    \/ \E p \in Procs : L95(p)
    \/ \E p \in Procs : Use(p)
    \/ \E p \in Procs : Finish(p)

vars == <<vizVars, ingVars, trVars>>

Spec == Init /\ [][Next]_vars
SpecSeq == InitSeq /\ [][NextSeq]_vars
SpecIngest == InitIngest /\ [][NextIngest]_vars
SpecTransform == InitTransform /\ [][NextTransform]_vars

(* ------------------------------ claims -------------------------------- *)
Returned(p) == call[p].status = "ok"
EmptyAtEntry(p) == call[p].mem0.main = None

\* C1: every call that returns normally serves an entry whose grid date is
\* the UTC date of that call
C1_ServesToday ==
    \A p \in Procs : Returned(p) => call[p].served.date = call[p].served.day

\* C2: the handlers of one process run at most one recomputation sweep
\* (warehouse read) between them, however they interleave
C2_OneSweep == sweeps <= 1

\* the entry the call finds (in memory, else persisted) is dated before the
\* call's UTC date
StaleAtEntry(p) ==
    \/ /\ ~EmptyAtEntry(p)
       /\ call[p].mem0.kpi # None
       /\ call[p].mem0.opts # None
       /\ call[p].mem0.ts = GridOf(call[p].mem0.main)
       /\ call[p].mem0.ts.len > 0
       /\ call[p].mem0.ts.date < call[p].day
    \/ /\ EmptyAtEntry(p)
       /\ call[p].blob0.kind = "pickle"
       /\ call[p].blob0.ts.len > 0
       /\ call[p].blob0.ts.date < call[p].day

\* C3: a call that finds an entry dated before the call's date (in memory,
\* or persisted with memory empty) returns only after a recomputation that
\* leaves an entry dated today
C3_RolloverRecomputes ==
    \A p \in Procs :
        Returned(p) /\ StaleAtEntry(p) =>
            /\ call[p].path = "bq"
            /\ call[p].served.date = call[p].served.day

\* all four globals are set and agree with df_main
Populated ==
    /\ df_main # None
    /\ df_kpi # None
    /\ timestamps = GridOf(df_main)
    /\ search_options = Names(df_main)

\* C4: an entry a handler sees as present is complete, and a load that ends
\* in the critical-failure branch leaves the globals as they were at its start
C4_NoPartialPublish ==
    /\ \A p \in Procs : pc[p] = "use" => Populated
    /\ \A p \in Procs : call[p].status = "exit" => Mem = call[p].mem0

\* C5: a failed upload after a successful warehouse read does not abort the
\* call
C5_UploadFailureTolerated ==
    \A p \in Procs : call[p].failedAt = "upload" => call[p].status \in {"run", "ok"}

\* the persisted snapshot a call found was missing, unreadable or not fresh
NoValidPersisted(p) ==
    \/ call[p].blob0 = Missing
    \/ call[p].readErr
    \/ /\ call[p].blob0.kind = "pickle"
       /\ ~(call[p].blob0.ts.len > 0 /\ call[p].blob0.ts.date = today_utc[p])

\* C6: from EMPTY with no valid persisted snapshot, a call that returns has
\* recomputed and leaves a populated entry dated the call's UTC date
C6_RecomputeEndsFresh ==
    \A p \in Procs :
        Returned(p) /\ EmptyAtEntry(p) /\ NoValidPersisted(p) =>
            /\ call[p].path = "bq"
            /\ Populated
            /\ timestamps.len > 0
            /\ timestamps.date = today_utc[p]

\* the part of C6 the code keeps: the call falls through to the warehouse
\* and populates the entry from it
C6_FallsThrough ==
    \A p \in Procs :
        Returned(p) /\ EmptyAtEntry(p) /\ NoValidPersisted(p) =>
            call[p].path = "bq" /\ call[p].sweeps = 1 /\ Populated

\* C7: a call that follows a call that returned on the same UTC date in the
\* same process returns the same table from memory, without a warehouse
\* read and without touching the store
C7_SecondCallFromMemory ==
    \A p \in Procs :
        Returned(p) /\ call[p].prev # None /\ call[p].served.day = call[p].prev.day =>
            /\ call[p].path = "ram"
            /\ df_main = call[p].prev.main
            /\ call[p].served.date = call[p].prev.main.date
            /\ call[p].sweeps = 0
            /\ call[p].stores = 0
            /\ call[p].writes = 0
C7_Witness ==
    \E p \in Procs :
        /\ pc[p] = "done"
        /\ Returned(p)
        /\ call[p].prev # None
        /\ call[p].served.day = call[p].prev.day
        /\ call[p].path = "ram"
        /\ df_main.len > 0

\* the persisted snapshot the call found is readable, non-empty and dated the
\* call's UTC date
FreshPersisted(p) ==
    /\ call[p].blob0.kind = "pickle"
    /\ ~call[p].readErr
    /\ call[p].blob0.ts.len > 0
    /\ call[p].blob0.ts.date = today_utc[p]

\* C8: from EMPTY, a readable persisted snapshot with a non-empty grid dated
\* the call's UTC date is loaded as it is: no warehouse read, no write
C8_FreshCacheLoaded ==
    \A p \in Procs :
        Returned(p) /\ EmptyAtEntry(p) /\ FreshPersisted(p) =>
            /\ call[p].path = "gcs"
            /\ df_main = call[p].blob0.main
            /\ df_kpi = call[p].blob0.kpi
            /\ timestamps = call[p].blob0.ts
            /\ search_options = Names(call[p].blob0.main)
            /\ timestamps.date = today_utc[p]
            /\ call[p].sweeps = 0
            /\ call[p].writes = 0
            /\ blob = call[p].blob0
C8_Witness ==
    \E p \in Procs :
        /\ Returned(p)
        /\ EmptyAtEntry(p)
        /\ FreshPersisted(p)
        /\ call[p].path = "gcs"
        /\ df_main = call[p].blob0.main

Failed500 == [body |-> "Failed", code |-> 500]
Success200 == [body |-> "Success", code |-> 200]

\* C10: publish_message is called only after pipeline.run returned; an
\* execution whose load raised publishes nothing and answers ('Failed', 500);
\* ('Success', 200) is answered only after the load and the publish call
C10_PublishAfterLoad ==
    /\ exec.publishCalled => exec.loaded /\ ~exec.raised
    /\ exec.raised =>
          /\ published = exec.msgs0
          /\ ipc = "idle"
          /\ resp = Failed500
    /\ resp = Success200 => exec.loaded /\ exec.publishCalled /\ ~exec.raised
    /\ published # exec.msgs0 => exec.loaded
C10_Witness ==
    /\ resp = Success200
    /\ exec.loaded
    /\ published = exec.msgs0 + 1
    /\ nreq > 1
    /\ loads < nreq

\* C9: every trajectory has at most GridLen points, its i-th point carries
\* the i-th instant of the grid, and the point update_map draws for an
\* object is the object's position at the instant the dashboard displays
C9_TrajectoryOnGrid ==
    /\ \A k \in 1 .. Len(catalog) :
          /\ Len(catalog[k].Trajectory) <= GridLen
          /\ \A i \in 1 .. Len(catalog[k].Trajectory) :
                to_datetime(catalog[k].Trajectory[i].timestamp) = timeVector[i]
    /\ \A j \in 1 .. Len(shown.pts) :
          /\ to_datetime(shown.pts[j].pt.timestamp) = shown.ts
          /\ shown.ts = timeVector[shown.idx + 1]
          /\ shown.pts[j].pt.lat = round2(Latitude(shown.pts[j].elements, shown.ts))
          /\ shown.pts[j].pt.lon = round2(Longitude(shown.pts[j].elements, shown.ts))
C9_Witness ==
    /\ Len(catalog) = 2
    /\ catalog[1].Object_Name # catalog[2].Object_Name
    /\ Len(shown.pts) = 2
    /\ shown.idx = GridLen - 1
    /\ shown.pts[2].pt.lat # NaN
    /\ now.min # 0

====
